---- MODULE Spec2Model ----
(***************************************************************************)
(* web_terminal.py: one websocket connection handled by websocket_handler, *)
(* bridging a browser to a shell on a PTY.  The model follows one          *)
(* connection from the token check to the end of the handler: the inbound  *)
(* loop (async for msg in ws), the relay task read_pty, the shell, and the *)
(* finally block.  Text is a sequence of code points, bytes a sequence of  *)
(* integers 0..255.                                                        *)
(***************************************************************************)
EXTENDS Integers, Sequences, FiniteSets, TLC

\* ------------------------------------------------------------------ bounds
\* the traffic of one session: messages the inbound loop receives plus bytes
\* the shell writes to its output
MaxTraffic == 3
\* stands for the 1024 of os.read(master_fd, 1024) / pty.read(1024)
MaxRead == 2
\* concurrent sessions of one server process
NSessions == 3
\* worker threads of the event loop's default executor
Workers == 1
\* unread output bytes one PTY buffers
MaxPending == 1

\* ------------------------------------------------------- program constants
\* j.get('rows',24) and the Windows spawn geometry
DefaultRows == 24
\* j.get('cols',80) and the Windows spawn geometry
DefaultCols == 80
\* largest value struct.pack accepts for the format 'H'
UShortMax == 65535

\* ------------------------------------------------------------ text, bytes
Min(a, b) == IF a < b THEN a ELSE b

\* str.encode() of one code point (UTF-8, code points below 2048)
Utf8Char(c) == IF c < 128 THEN <<c>> ELSE <<192 + (c \div 64), 128 + (c % 64)>>

RECURSIVE Encode(_)
\* str.encode(): the UTF-8 bytes of a text
Encode(s) == IF s = <<>> THEN <<>> ELSE Utf8Char(Head(s)) \o Encode(Tail(s))

RECURSIVE Decode(_)
\* bytes -> str, the decoding the websocket layer applies to a TEXT frame and
\* the Windows backend to the console output; an incomplete trailing sequence
\* is left out
Decode(b) ==
  IF b = <<>> THEN <<>>
  ELSE IF Head(b) < 128 THEN <<Head(b)>> \o Decode(Tail(b))
  ELSE IF Len(b) < 2 THEN <<>>
  ELSE <<(Head(b) - 192) * 64 + (b[2] - 128)>> \o Decode(Tail(Tail(b)))

\* 'Invalid token or TERMINAL_TOKEN not set.'
RejectText == <<73, 110, 118, 97, 108, 105, 100, 32, 116, 111, 107, 101, 110, 32, 111, 114, 32, 84, 69, 82, 77, 73, 78, 65, 76, 95, 84, 79, 75, 69, 78, 32, 110, 111, 116, 32, 115, 101, 116, 46>>
\* json.dumps({'type':'disconnect'}) = '{"type": "disconnect"}'
DisconnectText == <<123, 34, 116, 121, 112, 101, 34, 58, 32, 34, 100, 105, 115, 99, 111, 110, 110, 101, 99, 116, 34, 125>>

\* frames the server sends
TextFrame(s) == [type |-> "TEXT", data |-> s]
BinaryFrame(b) == [type |-> "BINARY", data |-> b]

\* ------------------------------------------------------------------- JSON
\* a JSON field value: an integer, null, or the key is absent
IntVal(n) == <<"int", n>>
NullVal == <<"null", 0>>
Absent == <<"absent", 0>>

RECURSIVE Digits(_)
Digits(n) == IF n < 10 THEN <<48 + n>> ELSE Digits(n \div 10) \o <<48 + (n % 10)>>
\* the JSON text of an integer
IntText(n) == IF n < 0 THEN <<45>> \o Digits(0 - n) ELSE Digits(n)

\* 'null'
NullText == <<110, 117, 108, 108>>
ValText(v) ==
  IF v[1] = "int" THEN IntText(v[2]) ELSE NullText

\* '{"type":"resize"'
ObjOpenResize == <<123, 34, 116, 121, 112, 101, 34, 58, 34, 114, 101, 115, 105, 122, 101, 34>>
\* ',"rows":'
RowsKey == <<44, 34, 114, 111, 119, 115, 34, 58>>
\* ',"cols":'
ColsKey == <<44, 34, 99, 111, 108, 115, 34, 58>>
\* '}'
ObjClose == <<125>>
\* the text of {"type":"resize","rows":r,"cols":c}, a key left out when Absent
ResizeText(r, c) ==
  ObjOpenResize \o (IF r = Absent THEN <<>> ELSE RowsKey \o ValText(r))
                \o (IF c = Absent THEN <<>> ELSE ColsKey \o ValText(c)) \o ObjClose

\* 'ls': not JSON
TextLs == <<108, 115>>
\* 'é': not JSON, not ASCII
TextEAcute == <<233>>
\* '1': JSON, a number
TextOne == <<49>>
\* '{"type":"key"}': JSON, an object of another type
TextKeyObj == <<123, 34, 116, 121, 112, 101, 34, 58, 34, 107, 101, 121, 34, 125>>

\* the (rows, cols) fields of the resize messages a client sends
ResizePairs ==
  { <<IntVal(40), IntVal(100)>>, <<Absent, Absent>>, <<IntVal(40), Absent>>,
    <<Absent, IntVal(100)>>, <<IntVal(0), IntVal(80)>>, <<IntVal(0 - 1), IntVal(80)>>,
    <<IntVal(65536), IntVal(80)>>, <<IntVal(65535), IntVal(1)>>,
    <<NullVal, IntVal(80)>> }

\* a parsed JSON document: a dict with its 'type', 'rows', 'cols', or another value
Dict(t, r, c) == [kind |-> "dict", type |-> t, rows |-> r, cols |-> c]
OtherJson == [kind |-> "other", type |-> "", rows |-> Absent, cols |-> Absent]

\* the JSON texts of the model and the documents they parse to
JsonTable ==
  { <<ResizeText(p[1], p[2]), Dict("resize", p[1], p[2])>> : p \in ResizePairs }
    \cup { <<TextOne, OtherJson>>, <<TextKeyObj, Dict("key", Absent, Absent)>> }

\* json.loads(s): the document, or raised (any other text is not JSON)
JsonLoads(s) ==
  IF \E p \in JsonTable : p[1] = s
  THEN [raised |-> FALSE, j |-> (CHOOSE p \in JsonTable : p[1] = s)[2]]
  ELSE [raised |-> TRUE, j |-> OtherJson]

GetRows_ColsDefault(j) == IF j.rows = Absent THEN IntVal(DefaultCols) ELSE j.rows
\* j.get(key, default) for key 'rows' / 'cols'
GetRows(j) == IF j.rows = Absent THEN IntVal(DefaultRows) ELSE j.rows
GetCols(j) == IF j.cols = Absent THEN IntVal(DefaultCols) ELSE j.cols

\* isinstance(j, dict) and j.get('type')=='resize'
IsResize(j) == j.kind = "dict" /\ j.type = "resize"

\* the texts a client sends in TEXT frames
TextPayloads == { p[1] : p \in JsonTable } \cup { TextLs, TextEAcute }
\* 'ls\n'
BinLs == <<108, 115, 10>>
\* Ctrl-C
BinCtrlC == <<3>>
BinaryPayloads == { BinLs, BinCtrlC }


\* ------------------------------------------------------------------ state
VARIABLES
  IS_WINDOWS,      \* platform.system() == 'Windows'
  expected,        \* os.environ.get('TERMINAL_TOKEN')
  query_token,     \* request.query.get('token')
  pc,              \* where websocket_handler is
  raised,          \* an exception has left websocket_handler
  conn,            \* the connection: "open", "client_closed", "server_closed"
  sent,            \* the frames the server has sent, in order
  spawnCount,      \* shells spawned (Popen / PtyProcess.spawn)
  master_fd,       \* POSIX PTY master: "none", "open", "closed"
  slave_fd,        \* POSIX PTY slave in the server: "none", "open", "closed"
  closeCount,      \* os.close(master_fd) calls
  terminateCount,  \* proc.terminate() / pty.terminate() calls
  alive,           \* the shell process is running
  shellOut,        \* every byte the shell has written to its output
  readPos,         \* how many of them the relay's reads have taken
  dims,            \* the PTY's window size <<rows, cols>>
  task,            \* where the relay task read_pty is
  data,            \* read_pty's local 'data'
  received,        \* how many messages the inbound loop has received
  frame,           \* the frame it received last: its type and payload bytes
  ptyIn,           \* every byte written to the PTY (the shell's input)
  sess,            \* concurrent sessions: each handler's place ("new", "open", "closed")
  fds,             \* the process's descriptor table: number -> PTY behind it (0: free)
  sfd,             \* each handler's local master_fd (a descriptor number, 0: none)
  relay,           \* each session's read_pty task
  queue,           \* default executor: os.read jobs waiting for a worker thread
  running,         \* default executor: os.read calls in a worker thread
  pending          \* per PTY: output bytes written by its shell and not read yet

vars == <<IS_WINDOWS, expected, query_token, pc, raised, conn, sent, spawnCount,
          master_fd, slave_fd, closeCount, terminateCount, alive, shellOut, readPos,
          dims, task, data, received, frame, ptyIn,
          sess, fds, sfd, relay, queue, running, pending>>

envVars == <<IS_WINDOWS, expected, query_token>>
poolVars == <<sess, fds, sfd, relay, queue, running, pending>>
ptyVars == <<spawnCount, master_fd, slave_fd, closeCount, terminateCount>>
shellVars == <<alive, shellOut>>
relayVars == <<readPos, task, data>>
inVars == <<dims, received, frame, ptyIn>>

\* os.environ.get / query.get return None for a missing key
None == "<None>"
Secrets == {None, "", "abc123"}
Tokens == {None, "", "abc123", "wrong"}
\* the code points the shell writes: 'a' and 'e-acute' (two bytes in UTF-8)
OutChars == {97, 233}

NoData == [isStr |-> FALSE, v |-> <<>>]
NoFrame == [type |-> "NONE", payload |-> <<>>]

\* the sessions of one server process, and the descriptor numbers their PTYs get
Sessions == 1..NSessions
FdNumbers == 1..NSessions

\* one handler invocation, before its first statement
HandlerInit ==
  /\ pc = "auth"
  /\ raised = FALSE
  /\ conn = "open"
  /\ sent = <<>>
  /\ spawnCount = 0
  /\ master_fd = "none"
  /\ slave_fd = "none"
  /\ closeCount = 0
  /\ terminateCount = 0
  /\ alive = FALSE
  /\ shellOut = <<>>
  /\ readPos = 0
  /\ dims = <<0, 0>>
  /\ task = "none"
  /\ data = NoData
  /\ received = 0
  /\ frame = NoFrame
  /\ ptyIn = <<>>

\* the server process before any session: no PTY descriptor, idle executor
PoolInit ==
  /\ sess = [s \in Sessions |-> "new"]
  /\ fds = [n \in FdNumbers |-> 0]
  /\ sfd = [s \in Sessions |-> 0]
  /\ relay = [s \in Sessions |-> "none"]
  /\ queue = <<>>
  /\ running = {}
  /\ pending = [s \in Sessions |-> 0]

Init ==
  /\ IS_WINDOWS \in BOOLEAN
  /\ expected \in Secrets
  /\ query_token \in Tokens
  /\ HandlerInit
  /\ PoolInit

\* ------------------------------------------------------ connection gateway
\* token = request.query.get('token') or ''
OrEmpty(t) == IF t = None THEN "" ELSE t

AuthRejected_TokenOnly(e, t) == OrEmpty(t) # e
\* if not expected or token != expected
AuthRejected(e, t) == e = None \/ e = "" \/ OrEmpty(t) # e

Authenticate ==
  /\ pc = "auth"
  /\ pc' = IF AuthRejected(expected, query_token) THEN "reject_send" ELSE "spawn"
  /\ UNCHANGED <<poolVars, envVars, raised, conn, sent, ptyVars, shellVars, relayVars, inVars>>

\* await ws.send_str('Invalid token or TERMINAL_TOKEN not set.')
RejectSend ==
  /\ pc = "reject_send"
  /\ sent' = Append(sent, TextFrame(RejectText))
  /\ pc' = "reject_close"
  /\ UNCHANGED <<poolVars, envVars, raised, conn, ptyVars, shellVars, relayVars, inVars>>

\* await ws.close(); return ws
RejectClose ==
  /\ pc = "reject_close"
  /\ conn' = "server_closed"
  /\ pc' = "done"
  /\ UNCHANGED <<poolVars, envVars, raised, sent, ptyVars, shellVars, relayVars, inVars>>

\* ------------------------------------------------------------------ spawn
\* the window size of a PTY os.openpty() has just made: the kernel's zeros,
\* the code sets none before the shell starts
OpenptyDims == <<0, 0>>

\* POSIX: os.openpty(), Popen, os.close(slave_fd), ensure_future(read_pty())
SpawnPosix ==
  /\ pc = "spawn" /\ ~IS_WINDOWS
  /\ master_fd' = "open"
  /\ slave_fd' = "closed"
  /\ spawnCount' = spawnCount + 1
  /\ alive' = TRUE
  /\ dims' = OpenptyDims
  /\ task' = "read"
  /\ pc' = "loop"
  /\ UNCHANGED <<poolVars, envVars, raised, conn, sent, closeCount, terminateCount, shellOut,
                 readPos, data, received, frame, ptyIn>>

\* POSIX: os.openpty() raises (no PTY left), or Popen raises (no such shell)
SpawnPosixFails ==
  /\ pc = "spawn" /\ ~IS_WINDOWS
  /\ \E popen \in BOOLEAN :
       /\ master_fd' = IF popen THEN "open" ELSE "none"
       /\ slave_fd' = IF popen THEN "open" ELSE "none"
  /\ raised' = TRUE
  /\ pc' = "done"
  /\ UNCHANGED <<poolVars, envVars, conn, sent, spawnCount, closeCount, terminateCount,
                 shellVars, relayVars, inVars>>

\* Windows: PtyProcess.spawn(..., dimensions=(rows, cols)), ensure_future(read_pty())
SpawnWindows ==
  /\ pc = "spawn" /\ IS_WINDOWS
  /\ spawnCount' = spawnCount + 1
  /\ alive' = TRUE
  /\ dims' = <<DefaultRows, DefaultCols>>
  /\ task' = "check"
  /\ pc' = "loop"
  /\ UNCHANGED <<poolVars, envVars, raised, conn, sent, master_fd, slave_fd, closeCount,
                 terminateCount, shellOut, readPos, data, received, frame, ptyIn>>

\* Windows: PtyProcess.spawn raises
SpawnWindowsFails ==
  /\ pc = "spawn" /\ IS_WINDOWS
  /\ raised' = TRUE
  /\ pc' = "done"
  /\ UNCHANGED <<poolVars, envVars, conn, sent, ptyVars, shellVars, relayVars, inVars>>

\* ------------------------------------------------------------ inbound loop
\* struct.pack('H', v) accepts v: an integer in 0..65535
PackH(v) == v[1] = "int" /\ v[2] >= 0 /\ v[2] <= UShortMax

set_pty_size_Swapped(d, rows, cols) ==
  IF PackH(rows) /\ PackH(cols)
  THEN {[raised |-> FALSE, dims |-> <<cols[2], rows[2]>>]}
  ELSE {[raised |-> TRUE, dims |-> d]}
\* set_pty_size(fd, rows, cols) on a PTY of size d: the outcomes (one): struct.pack
\* raises, or the ioctl sets the size
set_pty_size(d, rows, cols) ==
  IF PackH(rows) /\ PackH(cols)
  THEN {[raised |-> FALSE, dims |-> <<rows[2], cols[2]>>]}
  ELSE {[raised |-> TRUE, dims |-> d]}

\* a size the console accepts for certain: a positive SHORT (a COORD's range)
ConsoleSize(v) == v[1] = "int" /\ v[2] >= 1 /\ v[2] <= 32767
\* pty.setwinsize(rows, cols): a non-integer raises; an integer outside 1..32767
\* is refused (raises) or taken as given, as the backend decides
setwinsize(d, rows, cols) ==
  IF rows[1] # "int" \/ cols[1] # "int" THEN {[raised |-> TRUE, dims |-> d]}
  ELSE IF ConsoleSize(rows) /\ ConsoleSize(cols)
  THEN {[raised |-> FALSE, dims |-> <<rows[2], cols[2]>>]}
  ELSE {[raised |-> FALSE, dims |-> <<rows[2], cols[2]>>], [raised |-> TRUE, dims |-> d]}

\* the resize call of the variant
Resize(win, d, rows, cols) ==
  IF win THEN setwinsize(d, rows, cols) ELSE set_pty_size(d, rows, cols)

\* The TEXT branch on msg.data = text with the PTY at size d: the outcomes
\* [dims, write], write telling whether the except clause writes the text to the
\* PTY.  json.loads raising and the resize call raising both land in
\* 'except Exception'; a document that is no resize object falls through.
TextBranch(win, d, text) ==
  LET parsed == JsonLoads(text) IN
  IF parsed.raised THEN {[dims |-> d, write |-> TRUE]}
  ELSE IF IsResize(parsed.j)
  THEN { [dims |-> o.dims, write |-> o.raised] :
           o \in Resize(win, d, GetRows(parsed.j), GetCols(parsed.j)) }
  ELSE {[dims |-> d, write |-> FALSE]}

PtyWrite_Short(in, bytes) == in \o SubSeq(bytes, 1, 1)
\* os.write(master_fd, bytes) / pty.write: the PTY's input after the write
PtyWrite(in, bytes) == in \o bytes

\* a write to the PTY may raise only once the shell has exited
WriteFails == IF alive THEN {FALSE} ELSE {FALSE, TRUE}

\* the loop takes messages while the connection is open
CanReceive == pc = "loop" /\ conn = "open" /\ received + Len(shellOut) < MaxTraffic

\* a TEXT message: msg.data is the decoded payload
ReceiveText ==
  /\ CanReceive
  /\ \E text \in TextPayloads :
       LET payload == Encode(text)
           msgdata == Decode(payload) IN
       \E o \in TextBranch(IS_WINDOWS, dims, msgdata) : \E fails \in WriteFails :
         /\ frame' = [type |-> "TEXT", payload |-> payload]
         /\ dims' = o.dims
         /\ ptyIn' = IF o.write /\ ~fails THEN PtyWrite(ptyIn, Encode(msgdata)) ELSE ptyIn
         /\ raised' = (o.write /\ fails)
         /\ pc' = IF o.write /\ fails THEN "finally" ELSE "loop"
  /\ received' = received + 1
  /\ UNCHANGED <<poolVars, envVars, conn, sent, ptyVars, shellVars, relayVars>>

\* a BINARY message: os.write(master_fd, msg.data) / pty.write(msg.data)
ReceiveBinary ==
  /\ CanReceive
  /\ \E payload \in BinaryPayloads : \E fails \in WriteFails :
       /\ frame' = [type |-> "BINARY", payload |-> payload]
       /\ ptyIn' = IF fails THEN ptyIn ELSE PtyWrite(ptyIn, payload)
       /\ raised' = fails
       /\ pc' = IF fails THEN "finally" ELSE "loop"
  /\ received' = received + 1
  /\ UNCHANGED <<poolVars, envVars, conn, sent, ptyVars, shellVars, relayVars, dims>>

\* the browser closes the connection, or the connection is lost
ClientClose ==
  /\ pc = "loop" /\ conn = "open"
  /\ conn' = "client_closed"
  /\ UNCHANGED <<poolVars, envVars, pc, raised, sent, ptyVars, shellVars, relayVars, inVars>>

\* 'async for msg in ws' ends once the connection is closed, by either side
LoopExit ==
  /\ pc = "loop" /\ conn # "open"
  /\ pc' = "finally"
  /\ UNCHANGED <<poolVars, envVars, raised, conn, sent, ptyVars, shellVars, relayVars, inVars>>

Cancel_Missing(t) == t
\* task.cancel(): a task that has not finished gets CancelledError
Cancel(t) == IF t \in {"done", "failed"} THEN t ELSE "cancelled"

FinallyPosix_NoClose ==
  /\ pc = "finally" /\ ~IS_WINDOWS
  /\ task' = Cancel(task)
  /\ terminateCount' = terminateCount + 1
  /\ pc' = "done"
  /\ UNCHANGED <<poolVars, envVars, raised, conn, sent, spawnCount, master_fd, closeCount,
                 slave_fd, shellVars, readPos, data, inVars>>
\* POSIX finally: task.cancel(); proc.terminate(); os.close(master_fd)
FinallyPosix ==
  /\ pc = "finally" /\ ~IS_WINDOWS
  /\ task' = Cancel(task)
  /\ terminateCount' = terminateCount + 1
  /\ closeCount' = closeCount + 1
  /\ master_fd' = "closed"
  /\ pc' = "done"
  /\ UNCHANGED <<poolVars, envVars, raised, conn, sent, spawnCount, slave_fd, shellVars,
                 readPos, data, inVars>>

\* Windows finally: task.cancel(); pty.terminate(), its exceptions swallowed
FinallyWindows ==
  /\ pc = "finally" /\ IS_WINDOWS
  /\ task' = Cancel(task)
  /\ terminateCount' = terminateCount + 1
  /\ pc' = "done"
  /\ UNCHANGED <<poolVars, envVars, raised, conn, sent, spawnCount, master_fd, slave_fd,
                 closeCount, shellVars, readPos, data, inVars>>

\* ------------------------------------------------------------------ shell
\* the PTY can still be read or written: the handler has not torn it down
PtyLive == pc \in {"loop", "finally"}

\* the shell writes one character to its output
ShellWrite ==
  /\ alive /\ PtyLive
  /\ \E c \in OutChars :
       /\ received + Len(shellOut) + Len(Utf8Char(c)) <= MaxTraffic
       /\ shellOut' = shellOut \o Utf8Char(c)
  /\ UNCHANGED <<poolVars, envVars, pc, raised, conn, sent, ptyVars, alive, relayVars, inVars>>

\* the shell process exits, of its own or on a signal
ShellExit ==
  /\ alive
  /\ alive' = FALSE
  /\ UNCHANGED <<poolVars, envVars, pc, raised, conn, sent, ptyVars, shellOut, relayVars, inVars>>

\* ------------------------------------------------------- relay task read_pty
\* the output the relay has not read yet
Unread == SubSeq(shellOut, readPos + 1, Len(shellOut))

\* os.read(fd, n) on a buffer: at most n bytes from its front
OsRead(buf, n) == SubSeq(buf, 1, Min(n, Len(buf)))
\* pty.read(n) on a buffer: at most n characters from its front, as a str
WinRead(buf, n) == LET chars == Decode(buf) IN SubSeq(chars, 1, Min(n, Len(chars)))

Outgoing_NoEncode(d) == d.v
\* data.encode() if isinstance(data,str) else data (POSIX data is bytes already)
Outgoing(d) == IF d.isStr THEN Encode(d.v) ELSE d.v

\* Windows: while pty.isalive()
RelayCheckAlive ==
  /\ task = "check"
  /\ task' = IF alive THEN "read" ELSE "send_disc"
  /\ UNCHANGED <<poolVars, envVars, pc, raised, conn, sent, ptyVars, shellVars, readPos, data, inVars>>

\* the blocking read in the executor returns output
RelayRead ==
  /\ task = "read" /\ Unread # <<>>
  /\ IF IS_WINDOWS
     THEN LET chars == WinRead(Unread, MaxRead) IN
          /\ data' = [isStr |-> TRUE, v |-> chars]
          /\ readPos' = readPos + Len(Encode(chars))
     ELSE LET bytes == OsRead(Unread, MaxRead) IN
          /\ data' = [isStr |-> FALSE, v |-> bytes]
          /\ readPos' = readPos + Len(bytes)
  /\ task' = "send"
  /\ UNCHANGED <<poolVars, envVars, pc, raised, conn, sent, ptyVars, shellVars, inVars>>

RelayReadEnd_NonBlocking ==
  /\ task = "read" /\ Unread = <<>>
  /\ \E eof \in BOOLEAN : task' = IF eof THEN "send_disc" ELSE "failed"
  /\ data' = NoData
  /\ UNCHANGED <<poolVars, envVars, pc, raised, conn, sent, ptyVars, shellVars, readPos, inVars>>
\* the blocking read returns with the shell gone and nothing left to read:
\* empty data ('if not data: break'), or the read raises (EIO on Linux,
\* EOFError from the Windows backend) and the exception ends the task
RelayReadEnd ==
  /\ task = "read" /\ Unread = <<>> /\ ~alive
  /\ \E eof \in BOOLEAN : task' = IF eof THEN "send_disc" ELSE "failed"
  /\ data' = NoData
  /\ UNCHANGED <<poolVars, envVars, pc, raised, conn, sent, ptyVars, shellVars, readPos, inVars>>

\* await ws.send_bytes(...); a send on a connection no longer open raises
RelaySend ==
  /\ task = "send"
  /\ IF conn = "open"
     THEN /\ sent' = Append(sent, BinaryFrame(Outgoing(data)))
          /\ task' = IF IS_WINDOWS THEN "check" ELSE "read"
     ELSE /\ sent' = sent
          /\ task' = "failed"
  /\ UNCHANGED <<poolVars, envVars, pc, raised, conn, ptyVars, shellVars, readPos, data, inVars>>

\* await ws.send_str(json.dumps({'type':'disconnect'}))
RelaySendDisconnect ==
  /\ task = "send_disc"
  /\ IF conn = "open"
     THEN /\ sent' = Append(sent, TextFrame(DisconnectText))
          /\ task' = "close"
     ELSE /\ sent' = sent
          /\ task' = "failed"
  /\ UNCHANGED <<poolVars, envVars, pc, raised, conn, ptyVars, shellVars, readPos, data, inVars>>

\* await ws.close()
RelayClose ==
  /\ task = "close"
  /\ conn' = IF conn = "open" THEN "server_closed" ELSE conn
  /\ task' = "done"
  /\ UNCHANGED <<poolVars, envVars, pc, raised, sent, ptyVars, shellVars, readPos, data, inVars>>

\* ---------------------------------------------------------- specification
Next ==
  \/ Authenticate \/ RejectSend \/ RejectClose
  \/ SpawnPosix \/ SpawnPosixFails \/ SpawnWindows \/ SpawnWindowsFails
  \/ ReceiveText \/ ReceiveBinary \/ ClientClose \/ LoopExit
  \/ FinallyPosix \/ FinallyWindows
  \/ ShellWrite \/ ShellExit
  \/ RelayCheckAlive \/ RelayRead \/ RelayReadEnd \/ RelaySend
  \/ RelaySendDisconnect \/ RelayClose

Spec == Init /\ [][Next]_vars

\* The event loop runs every callback that is ready: the handler leaves the
\* loop once the connection is closed and then runs its finally block.  Nothing
\* obliges the client to send or close, nor the shell to write or exit.
FairSpec == Spec /\ WF_vars(LoopExit \/ FinallyPosix \/ FinallyWindows)

TypeOK ==
  /\ pc \in {"auth", "reject_send", "reject_close", "spawn", "loop", "finally", "done"}
  /\ conn \in {"open", "client_closed", "server_closed"}
  /\ task \in {"none", "check", "read", "send", "send_disc", "close", "done", "failed", "cancelled"}
  /\ master_fd \in {"none", "open", "closed"}
  /\ readPos \in 0..Len(shellOut)
  /\ received + Len(shellOut) <= MaxTraffic

\* ----------------------------------------------------- concurrent sessions
\* Several websocket_handler invocations of one server process.  They share
\* the process's descriptor table and the event loop's default executor, in
\* which every read_pty runs its os.read.  A PTY is named after the session
\* that opened it.
handlerVars == <<pc, raised, conn, sent, ptyVars, shellVars, relayVars, inVars>>

\* os.openpty() takes the lowest descriptor number that is free
LowestFree ==
  CHOOSE n \in FdNumbers : fds[n] = 0 /\ \A m \in FdNumbers : m < n => fds[m] # 0

\* master_fd, slave_fd = os.openpty(); Popen(...); ensure_future(read_pty())
OpenSession(s) ==
  /\ sess[s] = "new"
  /\ fds' = [fds EXCEPT ![LowestFree] = s]
  /\ sfd' = [sfd EXCEPT ![s] = LowestFree]
  /\ sess' = [sess EXCEPT ![s] = "open"]
  /\ relay' = [relay EXCEPT ![s] = "submit"]
  /\ UNCHANGED <<queue, running, pending, envVars, handlerVars>>

\* (os.read, master_fd, 1024): the job carries the descriptor NUMBER
ReadJob(s) == [s |-> s, fd |-> sfd[s]]

\* await loop.run_in_executor(None, os.read, master_fd, 1024)
SubmitRead(s) ==
  /\ relay[s] = "submit"
  /\ queue' = Append(queue, ReadJob(s))
  /\ relay' = [relay EXCEPT ![s] = "await"]
  /\ UNCHANGED <<sess, fds, sfd, running, pending, envVars, handlerVars>>

\* the PTY a descriptor number names now (0: none, os.read raises EBADF)
Resolve(n) == fds[n]

\* a worker thread that is free takes the oldest job and calls os.read, which
\* looks the number up in the descriptor table at that moment
WorkerStart ==
  /\ queue # <<>>
  /\ Cardinality(running) < Workers
  /\ running' = IF Resolve(Head(queue).fd) = 0
                  THEN running
                  ELSE running \cup {[s |-> Head(queue).s, pty |-> Resolve(Head(queue).fd)]}
  /\ queue' = Tail(queue)
  /\ UNCHANGED <<sess, fds, sfd, relay, pending, envVars, handlerVars>>

\* the shell of an open session prints
PoolShellWrite(p) ==
  /\ sess[p] = "open"
  /\ pending[p] < MaxPending
  /\ pending' = [pending EXCEPT ![p] = @ + 1]
  /\ UNCHANGED <<sess, fds, sfd, relay, queue, running, envVars, handlerVars>>

\* a blocked os.read returns what its PTY holds; the relay that awaits it
\* sends the bytes and loops, a cancelled relay never sees them
WorkerReadReturns(r) ==
  /\ r \in running
  /\ pending[r.pty] > 0
  /\ pending' = [pending EXCEPT ![r.pty] = 0]
  /\ running' = running \ {r}
  /\ relay' = [relay EXCEPT ![r.s] = IF @ = "await" THEN "submit" ELSE @]
  /\ UNCHANGED <<sess, fds, sfd, queue, envVars, handlerVars>>

\* the shell of a torn-down session exits: a read blocked on its PTY gets EIO
WorkerReadFails(r) ==
  /\ r \in running
  /\ sess[r.pty] = "closed"
  /\ running' = running \ {r}
  /\ UNCHANGED <<sess, fds, sfd, relay, queue, pending, envVars, handlerVars>>

\* finally: task.cancel(); proc.terminate(); os.close(master_fd)
Teardown(s) ==
  /\ sess[s] = "open"
  /\ sess' = [sess EXCEPT ![s] = "closed"]
  /\ relay' = [relay EXCEPT ![s] = "cancelled"]
  /\ fds' = [fds EXCEPT ![sfd[s]] = 0]
  /\ UNCHANGED <<sfd, queue, running, pending, envVars, handlerVars>>

Without(q, i) == SubSeq(q, 1, i - 1) \o SubSeq(q, i + 1, Len(q))

\* task.cancel() cancels the future the relay awaits; that future's done
\* callback, run by the event loop in a later step, cancels the executor's
\* job if no worker has taken it yet
CancelQueued(i) ==
  /\ i \in 1..Len(queue)
  /\ relay[queue[i].s] = "cancelled"
  /\ queue' = Without(queue, i)
  /\ UNCHANGED <<sess, fds, sfd, relay, running, pending, envVars, handlerVars>>

PoolInit_Env ==
  /\ IS_WINDOWS = FALSE
  /\ expected = "abc123"
  /\ query_token = "abc123"

InitPool == PoolInit_Env /\ HandlerInit /\ PoolInit

NextPool ==
  \/ \E s \in Sessions : OpenSession(s)
  \/ \E s \in Sessions : SubmitRead(s)
  \/ WorkerStart
  \/ \E p \in Sessions : PoolShellWrite(p)
  \/ \E r \in running : WorkerReadReturns(r)
  \/ \E r \in running : WorkerReadFails(r)
  \/ \E s \in Sessions : Teardown(s)
  \/ \E i \in 1..NSessions : CancelQueued(i)

PoolSpec == InitPool /\ [][NextPool]_vars

\* ------------------------------------------------------------------ claims
Unauthorised == expected \in {None, ""} \/ query_token # expected

\* C1: a connection whose token differs from the configured secret, or made
\* while no secret is configured (unset or empty), never gets a PTY, a shell
\* or a relay task; the server sends nothing but one rejection frame, closes
\* only after it, and has sent exactly that frame when the handler ends.
C1_RejectedNeverSpawns ==
  Unauthorised =>
    /\ spawnCount = 0 /\ master_fd = "none" /\ slave_fd = "none" /\ task = "none"
    /\ sent \in {<<>>, <<TextFrame(RejectText)>>}
    /\ (conn = "server_closed" \/ pc = "done") =>
         (sent = <<TextFrame(RejectText)>> /\ conn = "server_closed" /\ pc = "done")

\* an empty secret offered the empty token: rejected, frame sent, closed
C1_Witness ==
  /\ expected = "" /\ query_token = ""
  /\ pc = "done" /\ conn = "server_closed" /\ sent = <<TextFrame(RejectText)>>

IsDisconnect(f) == f.type = "TEXT" /\ f.data = DisconnectText
Disconnects == Len(SelectSeq(sent, IsDisconnect))

\* C2: once the shell has exited and the relay task has ended of its own, the
\* client having sent and closed nothing, exactly one disconnect notice has
\* been sent and the server has closed the connection.
C2_ShellExitNotifies ==
  (spawnCount = 1 /\ ~alive /\ received = 0 /\ conn # "client_closed"
     /\ task \in {"done", "failed"})
    => (Disconnects = 1 /\ conn = "server_closed")

\* C3: terminate and os.close(master_fd) are never called twice, not before
\* the handler ends, and once the handler of a session that spawned a shell
\* has ended each has been called exactly once (POSIX: the master is closed).
C3_TeardownOnce ==
  /\ terminateCount <= 1 /\ closeCount <= 1
  /\ pc # "done" => (terminateCount = 0 /\ closeCount = 0)
  /\ (spawnCount = 1 /\ pc = "done") =>
       /\ terminateCount = 1
       /\ ~IS_WINDOWS => (closeCount = 1 /\ master_fd = "closed")

\* a POSIX session ended by the shell's exit: the relay closed the connection,
\* then the finally block ran
C3_Witness ==
  /\ ~IS_WINDOWS /\ spawnCount = 1 /\ pc = "done"
  /\ task = "done" /\ conn = "server_closed"
  /\ terminateCount = 1 /\ closeCount = 1

IsBinary(f) == f.type = "BINARY"
RECURSIVE Concat(_)
Concat(fs) == IF fs = <<>> THEN <<>> ELSE Head(fs).data \o Concat(Tail(fs))
\* the bytes of the binary frames sent, in order
SentBytes == Concat(SelectSeq(sent, IsBinary))
IsPrefix(a, b) == Len(a) <= Len(b) /\ a = SubSeq(b, 1, Len(a))

\* C4: the binary frames sent, concatenated, are a prefix of what the shell
\* has written to its output.
C4_OutputPrefix == IsPrefix(SentBytes, shellOut)

\* three bytes of output containing a two-byte character, relayed in full in
\* two frames or more, with a message received meanwhile or not
C4_Witness ==
  /\ Len(shellOut) >= 3 /\ SentBytes = shellOut
  /\ Len(SelectSeq(sent, IsBinary)) >= 2
  /\ \E i \in 1..Len(shellOut) : shellOut[i] >= 128

\* the document a TEXT frame's text parses to, when it parses
FrameDoc(f) == JsonLoads(Decode(f.payload))
\* a TEXT frame that is a resize control message
IsResizeFrame(f) ==
  f.type = "TEXT" /\ \E d \in {FrameDoc(f)} : ~d.raised /\ IsResize(d.j)
\* the step receives a message
Received == received' = received + 1

\* C5: a TEXT frame that is not a resize control message, received while the
\* shell is alive, is written to the PTY as its payload bytes.
C5_TextForwarded ==
  [][(Received /\ alive /\ frame'.type = "TEXT" /\ ~IsResizeFrame(frame'))
       => ptyIn' = ptyIn \o frame'.payload]_vars

\* C6: a TEXT frame that is a resize control message writes nothing to the
\* PTY, whatever its rows and cols (stated of the POSIX backend, whose resize
\* call set_pty_size is in the source).
C6_ResizeWritesNothing ==
  [][(~IS_WINDOWS /\ Received /\ IsResizeFrame(frame')) => ptyIn' = ptyIn]_vars

\* the frame is a resize message carrying integers rows and cols in lo..hi
CarriesSize(f, lo, hi) ==
  /\ f.type = "TEXT"
  /\ \E d \in {FrameDoc(f)} :
       /\ ~d.raised /\ IsResize(d.j)
       /\ d.j.rows[1] = "int" /\ d.j.rows[2] >= lo /\ (hi = 0 \/ d.j.rows[2] <= hi)
       /\ d.j.cols[1] = "int" /\ d.j.cols[2] >= lo /\ (hi = 0 \/ d.j.cols[2] <= hi)
FrameSize(f) == <<FrameDoc(f).j.rows[2], FrameDoc(f).j.cols[2]>>

\* C7 as claimed: from the receipt of a resize message carrying rows>0 and
\* cols>0 until the next message is received, the PTY's size is (rows, cols)
\* (stated of the POSIX backend, the one the claim cites).
C7_ResizeApplied_Any ==
  (~IS_WINDOWS /\ CarriesSize(frame, 1, 0)) => dims = FrameSize(frame)

\* C7 as amended: on the POSIX backend, from the receipt of a resize message
\* carrying integers rows and cols in 1..65535 until the next message is
\* received, the PTY's size is (rows, cols).
C7_ResizeApplied ==
  (~IS_WINDOWS /\ CarriesSize(frame, 1, UShortMax)) => dims = FrameSize(frame)

\* POSIX: a resize to 65535 x 1 received after another message has taken effect
C7_Witness ==
  /\ ~IS_WINDOWS /\ received >= 2 /\ CarriesSize(frame, 1, UShortMax)
  /\ dims = <<UShortMax, 1>>

\* C8: a BINARY frame received while the shell is alive appends exactly its
\* payload to the PTY's input; a TEXT frame appends its payload or nothing;
\* nothing else writes to the PTY.  So the binary payloads reach the shell
\* whole and in receipt order, with text and resize frames in between or not.
C8_BinaryVerbatim ==
  [][IF Received /\ frame'.type = "BINARY"
     THEN alive => ptyIn' = ptyIn \o frame'.payload
     ELSE IF Received
     THEN ptyIn' = ptyIn \/ ptyIn' = ptyIn \o frame'.payload
     ELSE ptyIn' = ptyIn]_vars

\* 'ls\n', a resize, then Ctrl-C: the PTY's input is the two payloads in order
C8_Witness ==
  /\ received = 3 /\ frame = [type |-> "BINARY", payload |-> BinCtrlC]
  /\ dims = <<40, 100>> /\ ptyIn = BinLs \o BinCtrlC

\* C9: after a resize message, whatever rows and cols it carries, the PTY's
\* rows and cols are positive (stated of the POSIX backend, whose resize call
\* set_pty_size is in the source).
C9_DimsPositive ==
  (~IS_WINDOWS /\ spawnCount = 1 /\ IsResizeFrame(frame))
    => (dims[1] > 0 /\ dims[2] > 0)

\* C10: from the spawn until the first message is received, the PTY's size
\* is 24 rows by 80 columns.
C10_DefaultGeometry ==
  (spawnCount = 1 /\ received = 0) => dims = <<DefaultRows, DefaultCols>>


\* C11: at most one disconnect notice is sent, only once the shell has exited,
\* as the last frame (no binary frame follows it), after which the relay has
\* nothing left to do but close the connection; once the client has closed
\* the connection no disconnect notice is sent.
C11_OneDisconnectLast ==
  /\ [](/\ Disconnects <= 1
        /\ \A i \in 1..Len(sent) : IsDisconnect(sent[i]) => i = Len(sent)
        /\ Disconnects = 1 => (~alive /\ task \in {"close", "done", "cancelled"}))
  /\ [][/\ conn = "client_closed" => Disconnects' = Disconnects
        /\ Disconnects' > Disconnects => task = "send_disc"
        /\ Disconnects = 1 => sent' = sent]_vars

\* output relayed, then the notice, then the close by the server
C11_Witness ==
  /\ Disconnects = 1 /\ Len(sent) >= 2 /\ SentBytes = shellOut
  /\ task = "done" /\ conn = "server_closed"

\* C13: a resize message that leaves out rows and/or cols sets the PTY's size
\* to 24 for the missing rows and 80 for the missing cols, the field present
\* (an integer in 1..32767) kept.
C13_ResizeDefaults ==
  LET ok(v) == v = Absent \/ (v[1] = "int" /\ v[2] >= 1 /\ v[2] <= 32767) IN
  frame.type = "TEXT" =>
    \A d \in {FrameDoc(frame)} :
      (/\ ~d.raised /\ IsResize(d.j)
       /\ d.j.rows = Absent \/ d.j.cols = Absent
       /\ ok(d.j.rows) /\ ok(d.j.cols))
        => dims = << IF d.j.rows = Absent THEN 24 ELSE d.j.rows[2],
                     IF d.j.cols = Absent THEN 80 ELSE d.j.cols[2] >>

\* {"type":"resize","cols":100} received after {"type":"resize"}
C13_Witness ==
  /\ received >= 2 /\ frame = [type |-> "TEXT", payload |-> ResizeText(Absent, IntVal(100))]
  /\ dims = <<24, 100>>

\* C15: a session whose relay task has died of an error is not left in the
\* inbound loop on an open connection, waiting for the client.
C15_ReadErrorTearsDown == (task = "failed" /\ pc = "loop") => conn # "open"

\* C16: no exception leaves the handler of a session that spawned its shell:
\* a write to the PTY that fails is a no-op and the loop goes on.
C16_WriteFailureSilent ==
  [][(Received /\ spawnCount = 1) => (~raised' /\ pc' = "loop")]_vars

\* C17: after a spawn that failed, no PTY descriptor opened for the attempt is
\* left open and no relay task runs.
C17_SpawnFailureReleases ==
  (pc = "done" /\ raised /\ spawnCount = 0)
    => (master_fd # "open" /\ slave_fd # "open" /\ task = "none")

\* C20: when the disconnect notice is sent, every byte the shell has written
\* has been sent before it.
C20_OutputBeforeDisconnect == Disconnects = 1 => SentBytes = shellOut


\* C12: once the client has closed the connection the handler ends; when it
\* has ended the relay task is over (finished, failed or cancelled), terminate
\* has been called and the PTY master is closed; from then on no frame is sent.
C12_SessionEndsWithConnection ==
  /\ [](( pc = "done" /\ spawnCount = 1) =>
          /\ task \in {"done", "failed", "cancelled"}
          /\ terminateCount = 1
          /\ ~IS_WINDOWS => master_fd = "closed")
  /\ [][pc = "done" => sent' = sent]_vars
  /\ (conn = "client_closed" ~> pc = "done")

\* the client closed while the relay held bytes read and not yet sent
C12_Witness ==
  /\ conn = "client_closed" /\ pc = "done" /\ task = "cancelled"
  /\ data.v # <<>> /\ SentBytes # SubSeq(shellOut, 1, readPos)

\* C14: once terminate has been called the shell is eventually not alive.
C14_ShellDiesAfterTeardown == (terminateCount = 1) ~> ~alive

\* C18: a read that a session's relay handed to the executor never reads
\* from another session's PTY, so never consumes its bytes; this is to hold
\* even when the session is torn down, its descriptor number closed and given
\* to a later session's PTY while the read still waits for a worker.
C18_ReadsOwnPty == \A r \in running : r.pty = r.s

\* C19: a session with output to relay is never kept waiting by other
\* sessions: its queued read is never stuck behind workers that are all
\* blocked in reads of PTYs with nothing to read.
C19_NoHeadOfLineBlocking ==
  \A i \in 1..Len(queue) :
    (relay[queue[i].s] = "await" /\ pending[queue[i].s] > 0) =>
      (\/ Cardinality(running) < Workers
       \/ \E r \in running : pending[r.pty] > 0 \/ sess[r.pty] = "closed")

====
